---- MODULE Spec2Model ----
(***************************************************************************)
(* Leave-hour calculation engine (TimeService.calculateLeaveHours) and the *)
(* local-storage request store (StorageService) of the attendance portal.  *)
(*                                                                         *)
(* Time is counted in minutes: an instant (a JS Date's getTime()) is the   *)
(* number of minutes since 1970-01-01T00:00Z, the strings the program      *)
(* handles ("YYYY-MM-DD HH:mm") having minute resolution.  A number of     *)
(* hours (LeaveRequest.hours) is counted in tenths of an hour, the         *)
(* resolution of toFixed(1): 80 is 8.0 hours, 5 is 0.5 hour.               *)
(*                                                                         *)
(* Strings are modelled by what they denote, tagged by their shape:        *)
(*   ""                  [k |-> "empty"]                                   *)
(*   "YYYY-MM-DD"        [k |-> "ymd",   d |-> day]                        *)
(*   "YYYY-MM-DD HH:mm"  [k |-> "local", d |-> day, m |-> minute of day]   *)
(*   " HH:mm"            [k |-> "time",  m |-> minute of day]              *)
(*   "YYYY-MM-DDTHH:mm:ss.sssZ"  [k |-> "utc", t |-> instant]              *)
(* and a number found where a string is expected is [k |-> "number"].      *)
(* where day is the number of the calendar day, 1970-01-01 being day 0.    *)
(* A Date object handed to a function that also takes strings is           *)
(* [k |-> "Date", t |-> instant].                                          *)
(***************************************************************************)
EXTENDS Integers, Sequences, FiniteSets, TLC

VARIABLES
    tz,            \* the runtime's zone: minutes east of UTC
    startStr,      \* calculateLeaveHours argument
    endStr,        \* calculateLeaveHours argument
    argHolidays,   \* calculateLeaveHours argument (Holiday[])
    result,        \* what the call returned (tenths of an hour)
    pc,            \* "input" before the call, "done" after it
    localStorage,  \* the AppData persisted under STORAGE_KEY
    viewHolidays,  \* EmployeeDashboard's holidays state (loaded on mount)
    firestore,     \* the Firestore collections (Firestore-backed StorageService)
    memoryCache,   \* _memoryCache, the Firestore-backed service's mirror
    uncaught,      \* TRUE once an exception has escaped an event handler
    activeCloudFetch, \* _activeCloudFetch: 0 for null, else the promise held
    fetches,       \* the cloud GET requests issued so far, by promise
    returned,      \* the promises the fetchCloudData calls returned, in order
    timers,        \* the promises whose one-second setTimeout is armed
    cloud,         \* the AppData behind the cloud URL
    posts,         \* the bodies of the POST requests on their way to the cloud
    savedInFlight, \* ids of the leaves saveData wrote while the fetch was in flight
    sources,       \* getNetworkTimeOffset: the three fetchWithTimeout promises
    rejectedCount, \* promiseAny's rejectedCount
    answered,      \* the sources that answered successfully, in that order
    offset,        \* what getNetworkTimeOffset resolved to, <<>> while pending
    recordsDb,     \* the documents of Firestore's records collection
    recordsCache,  \* _memoryCache.records
    addCalls,      \* the addRecord calls made: record, promise state, cache before
    adminData      \* AdminDashboard's data state (loaded on mount and on refresh)

syncVars == <<activeCloudFetch, fetches, returned, timers, cloud, posts,
              savedInFlight>>
timeVars == <<sources, rejectedCount, answered, offset>>
recVars == <<recordsDb, recordsCache, addCalls>>
netVars == <<syncVars, timeVars, recVars>>

vars == <<tz, startStr, endStr, argHolidays, result, pc,
          localStorage, viewHolidays, firestore, memoryCache, uncaught, netVars,
          adminData>>

calcVars == <<tz, startStr, endStr, argHolidays, result, pc>>
storeVars == <<localStorage, viewHolidays>>
fireVars == <<firestore, memoryCache>>

-----------------------------------------------------------------------------
(* Bounds of the model *)

\* calendar days in the window the inputs are drawn from
NumDays == 5
\* longest holiday list handed to the engine
MaxHolidays == 2
\* most leave requests the store holds
MaxLeaves == 1
\* most holidays the store holds
MaxStoreHolidays == 1
\* dates the forms' <input type="date"> are given: the first days of the window
NumFormDays == 1

\* The window starts on Thursday 2024-02-29 (day 19782), so that it holds
\* Friday 2024-03-01, the week-end after it and Monday 2024-03-04.
Days == 19782 .. (19782 + NumDays - 1)

\* Times of day (minutes after midnight) the inputs are drawn from: 00:00,
\* 08:00, 08:30, 09:15, 10:10, 12:00, 12:20, 13:00, 17:30, 18:00.  They fall
\* before, on and after every edge of the work and lunch windows, and give
\* durations that are whole half-hours, exact quarter-hour ties and neither.
TimesOfDay == {0, 480, 510, 555, 610, 720, 740, 780, 1050, 1080}

-----------------------------------------------------------------------------
(* JavaScript's Date, as far as the engine uses it *)

MinPerDay == 24 * 60

\* Asia/Taipei is UTC+08:00 the year round
TaipeiOffset == 8 * 60

Max(a, b) == IF a > b THEN a ELSE b
Min(a, b) == IF a < b THEN a ELSE b

EmptyStr == [k |-> "empty"]
YmdStr(d) == [k |-> "ymd", d |-> d]
LocalStr(d, m) == [k |-> "local", d |-> d, m |-> m]
TimeStr(m) == [k |-> "time", m |-> m]
UtcStr(t) == [k |-> "utc", t |-> t]
NumberVal == [k |-> "number"]
DateObj(t) == [k |-> "Date", t |-> t]

\* isNaN(new Date(x).getTime()): a string with no date in it does not parse
InvalidDate(x) == x.k \in {"empty", "time"}

\* new Date(x).getTime() in a runtime whose zone is zone, for x that parses:
\* a date-only ISO string is UTC midnight, a date-time string without a zone
\* is local time, one that ends in Z names its instant.
NewDate(zone, x) ==
    IF x.k \in {"Date", "utc"} THEN x.t
    ELSE IF x.k = "ymd" THEN x.d * MinPerDay
    ELSE x.d * MinPerDay + x.m - zone

\* Date.prototype.getDay(): the local day of the week, 0 = Sunday;
\* 1970-01-01 was a Thursday.
getDay(zone, t) == (((t + zone) \div MinPerDay) + 4) % 7

\* current.setDate(current.getDate() + 1); current.setHours(0,0,0,0):
\* the next local midnight.
NextMidnight(zone, t) == (((t + zone) \div MinPerDay) + 1) * MinPerDay - zone

\* Mutant of getTaiwanDate: toLocaleDateString without the timeZone option,
\* the calendar day in the runtime's zone.
getTaiwanDateLocal(zone, dateInput) ==
    IF InvalidDate(dateInput) THEN dateInput
    ELSE YmdStr((NewDate(zone, dateInput) + zone) \div MinPerDay)

\* TimeService.getTaiwanDate: the calendar day of the instant in Asia/Taipei
\* as "YYYY-MM-DD"; what cannot be parsed is returned as it came.
getTaiwanDate(zone, dateInput) ==
    IF InvalidDate(dateInput) THEN dateInput
    ELSE YmdStr((NewDate(zone, dateInput) + TaipeiOffset) \div MinPerDay)

-----------------------------------------------------------------------------
(* TimeService.calculateLeaveHours *)

\* Mutant of isHoli: only the first entry of the list is looked at.
isHoliFirstOnly(zone, holidays, currentDateStr) ==
    LET checkDay == NewDate(zone, currentDateStr)
        dayOfWeek == getDay(zone, checkDay)
    IN  \/ /\ holidays # <<>>
           /\ getTaiwanDate(zone, holidays[1].date) = currentDateStr
        \/ dayOfWeek = 0
        \/ dayOfWeek = 6

\* Mutant of isHoli: the flag is overwritten by each holiday in turn, so
\* only the last entry of the list counts.
isHoliLastWins(zone, holidays, currentDateStr) ==
    LET checkDay == NewDate(zone, currentDateStr)
        dayOfWeek == getDay(zone, checkDay)
    IN  \/ /\ holidays # <<>>
           /\ getTaiwanDate(zone, holidays[Len(holidays)].date) = currentDateStr
        \/ dayOfWeek = 0
        \/ dayOfWeek = 6

\* holidays.some(h => TimeService.getTaiwanDate(h.date) === currentDateStr)
\*   || dayOfWeek === 0 || dayOfWeek === 6
isHoli(zone, holidays, currentDateStr) ==
    LET checkDay == NewDate(zone, currentDateStr)
        dayOfWeek == getDay(zone, checkDay)
    IN  \/ \E i \in 1..Len(holidays) :
              getTaiwanDate(zone, holidays[i].date) = currentDateStr
        \/ dayOfWeek = 0
        \/ dayOfWeek = 6

\* Mutant of DayDuration: the lunch overlap is not deducted.
DayDurationNoLunch(zone, s, e, currentDateStr) ==
    LET workStart  == NewDate(zone, LocalStr(currentDateStr.d, 8 * 60 + 30))
        workEnd    == NewDate(zone, LocalStr(currentDateStr.d, 17 * 60 + 30))
        segmentStart == IF s > workStart THEN s ELSE workStart
        segmentEnd   == IF e < workEnd THEN e ELSE workEnd
    IN  IF segmentEnd > segmentStart THEN segmentEnd - segmentStart ELSE 0

\* The body of `if (!isHoli)`: what the day of currentDateStr adds to
\* totalHours (minutes).
DayDuration(zone, s, e, currentDateStr) ==
    LET workStart  == NewDate(zone, LocalStr(currentDateStr.d, 8 * 60 + 30))
        workEnd    == NewDate(zone, LocalStr(currentDateStr.d, 17 * 60 + 30))
        lunchStart == NewDate(zone, LocalStr(currentDateStr.d, 12 * 60))
        lunchEnd   == NewDate(zone, LocalStr(currentDateStr.d, 13 * 60))
        segmentStart == IF s > workStart THEN s ELSE workStart
        segmentEnd   == IF e < workEnd THEN e ELSE workEnd
        lunchSegStart == IF segmentStart > lunchStart THEN segmentStart ELSE lunchStart
        lunchSegEnd   == IF segmentEnd < lunchEnd THEN segmentEnd ELSE lunchEnd
        duration == IF lunchSegEnd > lunchSegStart
                    THEN (segmentEnd - segmentStart) - (lunchSegEnd - lunchSegStart)
                    ELSE segmentEnd - segmentStart
    IN  IF segmentEnd > segmentStart /\ duration > 0 THEN duration ELSE 0

\* while (current < e) { ... }: totalHours when the loop exits
RECURSIVE DayLoop(_, _, _, _, _, _)
DayLoop(zone, s, e, holidays, current, totalHours) ==
    IF ~(current < e) THEN totalHours
    ELSE LET currentDateStr == getTaiwanDate(zone, DateObj(current))
             add == IF isHoli(zone, holidays, currentDateStr) THEN 0
                    ELSE DayDuration(zone, s, e, currentDateStr)
         IN  DayLoop(zone, s, e, holidays, NextMidnight(zone, current),
                     totalHours + add)

\* The currentDateStr of each iteration of the loop, in order
RECURSIVE DaysVisited(_, _, _)
DaysVisited(zone, e, current) ==
    IF ~(current < e) THEN <<>>
    ELSE <<getTaiwanDate(zone, DateObj(current))>>
         \o DaysVisited(zone, e, NextMidnight(zone, current))

\* Mutant of RoundHalfHour: an exact quarter-hour tie goes down.
RoundHalfHourTiesDown(totalHours) == 5 * ((totalHours + 14) \div 30)

\* Mutant of RoundHalfHour: only toFixed(1) rounds, to the nearest 0.1 hour.
RoundTenth(totalHours) == (totalHours + 3) \div 6

\* parseFloat((Math.round(h * 2) / 2).toFixed(1)) with h = totalHours / 60,
\* in tenths of an hour: Math.round(x) is floor(x + 0.5).
RoundHalfHour(totalHours) == 5 * ((totalHours + 15) \div 30)

\* The call throws a TypeError: past `if (!startStr || !endStr) return 0`,
\* startStr.replace(' ', 'T') and endStr.replace(' ', 'T') are calls of a
\* method only strings have (a number other than 0 passes the guard).
calculateLeaveHoursThrows(start, end) ==
    /\ start # EmptyStr
    /\ end # EmptyStr
    /\ (start = NumberVal \/ end = NumberVal)

\* Mutant of calculateLeaveHours: a reversed span is put in order instead
\* of being refused.
calculateLeaveHoursSwapped(zone, start, end, holidays) ==
    IF start = EmptyStr \/ end = EmptyStr THEN 0
    ELSE IF InvalidDate(start) \/ InvalidDate(end) THEN RoundHalfHour(0)
    ELSE LET s == Min(NewDate(zone, start), NewDate(zone, end))
             e == Max(NewDate(zone, start), NewDate(zone, end))
         IN  RoundHalfHour(DayLoop(zone, s, e, holidays, s, 0))

\* Mutant of calculateLeaveHours: a start or end without a date is given
\* the date of the other one.
calculateLeaveHoursFillingDate(zone, start, end, holidays) ==
    IF start = EmptyStr \/ end = EmptyStr THEN 0
    ELSE IF InvalidDate(start) /\ InvalidDate(end) THEN RoundHalfHour(0)
    ELSE LET s == NewDate(zone, IF InvalidDate(start) THEN LocalStr(end.d, start.m) ELSE start)
             e == NewDate(zone, IF InvalidDate(end) THEN LocalStr(start.d, end.m) ELSE end)
         IN  IF e <= s THEN 0
             ELSE RoundHalfHour(DayLoop(zone, s, e, holidays, s, 0))

\* A comparison with an Invalid Date is false, so with an unparseable start
\* or end neither `e <= s` nor `current < e` holds and the total stays 0.
calculateLeaveHours(zone, start, end, holidays) ==
    IF start = EmptyStr \/ end = EmptyStr THEN 0
    ELSE IF InvalidDate(start) \/ InvalidDate(end) THEN RoundHalfHour(0)
    ELSE LET s == NewDate(zone, start)
             e == NewDate(zone, end)
         IN  IF e <= s THEN 0
             ELSE RoundHalfHour(DayLoop(zone, s, e, holidays, s, 0))

-----------------------------------------------------------------------------
(* The earlier revision of the engine (services/geminiService.ts) *)

\* d.setHours(0, 0, 0, 0): the local midnight of the instant's day
LocalMidnight(zone, t) == ((t + zone) \div MinPerDay) * MinPerDay - zone

\* d.toISOString().split('T')[0]: the UTC calendar day
toISODate(t) == YmdStr(t \div MinPerDay)

\* The body of the loop for the day the cursor is at: what it adds to
\* totalHours (minutes).
GeminiDay(zone, startDateTime, endDateTime, holidays, current) ==
    LET dStr == YmdStr((current + zone) \div MinPerDay)
        isHoliday == \/ \E i \in 1..Len(holidays) : holidays[i].date = dStr
                     \/ getDay(zone, current) = 0
                     \/ getDay(zone, current) = 6
        workStart  == NewDate(zone, LocalStr(dStr.d, 8 * 60 + 30))
        workEnd    == NewDate(zone, LocalStr(dStr.d, 17 * 60 + 30))
        lunchStart == NewDate(zone, LocalStr(dStr.d, 12 * 60))
        lunchEnd   == NewDate(zone, LocalStr(dStr.d, 13 * 60))
        reqStart == IF current = LocalMidnight(zone, startDateTime) THEN startDateTime
                    ELSE IF dStr = toISODate(startDateTime) THEN startDateTime
                    ELSE workStart
        reqEnd   == IF current = LocalMidnight(zone, endDateTime) THEN endDateTime
                    ELSE IF dStr = toISODate(endDateTime) THEN endDateTime
                    ELSE workEnd
        dayReqStart == IF reqStart < workStart THEN workStart ELSE reqStart
        dayReqEnd   == IF reqEnd > workEnd THEN workEnd ELSE reqEnd
        overlapStart == IF dayReqStart < lunchStart THEN lunchStart ELSE dayReqStart
        overlapEnd   == IF dayReqEnd > lunchEnd THEN lunchEnd ELSE dayReqEnd
        deduction == IF overlapEnd > overlapStart THEN overlapEnd - overlapStart ELSE 0
    IN  IF ~isHoliday /\ dayReqEnd > dayReqStart
        THEN (dayReqEnd - dayReqStart) - deduction
        ELSE 0

\* while (current <= endDay) { ...; current.setDate(current.getDate() + 1) }
RECURSIVE GeminiLoop(_, _, _, _, _, _, _)
GeminiLoop(zone, startDateTime, endDateTime, holidays, endDay, current, totalHours) ==
    IF ~(current <= endDay) THEN totalHours
    ELSE GeminiLoop(zone, startDateTime, endDateTime, holidays, endDay,
                    current + MinPerDay,
                    totalHours + GeminiDay(zone, startDateTime, endDateTime,
                                           holidays, current))

\* Mutant of GeminiCalculateLeaveHours: the loop stops before the end day
\* (while current < endDay).
GeminiCalculateLeaveHoursExclusive(zone, start, end, holidays) ==
    IF start = EmptyStr \/ end = EmptyStr THEN 0
    ELSE IF InvalidDate(start) \/ InvalidDate(end) THEN RoundHalfHour(0)
    ELSE LET startDateTime == NewDate(zone, start)
             endDateTime == NewDate(zone, end)
         IN  IF endDateTime <= startDateTime THEN 0
             ELSE RoundHalfHour(
                    GeminiLoop(zone, startDateTime, endDateTime, holidays,
                               LocalMidnight(zone, endDateTime) - MinPerDay,
                               LocalMidnight(zone, startDateTime), 0))

\* geminiService.ts calculateLeaveHours: the cursor starts at the local
\* midnight of the start day and the loop runs through the end day.
GeminiCalculateLeaveHours(zone, start, end, holidays) ==
    IF start = EmptyStr \/ end = EmptyStr THEN 0
    ELSE IF InvalidDate(start) \/ InvalidDate(end) THEN RoundHalfHour(0)
    ELSE LET startDateTime == NewDate(zone, start)
             endDateTime == NewDate(zone, end)
         IN  IF endDateTime <= startDateTime THEN 0
             ELSE RoundHalfHour(
                    GeminiLoop(zone, startDateTime, endDateTime, holidays,
                               LocalMidnight(zone, endDateTime),
                               LocalMidnight(zone, startDateTime), 0))

-----------------------------------------------------------------------------
(* StorageService over localStorage, and the two dashboards that call it *)

\* INITIAL_ADMIN and DEFAULT_EMPLOYEE of constants.ts, by their ids
INITIAL_ADMIN == [id |-> "admin", role |-> "admin", deleted |-> FALSE]
DEFAULT_EMPLOYEE == [id |-> "user", role |-> "employee", deleted |-> FALSE]

\* getInitialData() (the settings play no part in what is modelled)
getInitialData ==
    [users |-> <<INITIAL_ADMIN, DEFAULT_EMPLOYEE>>,
     records |-> <<>>,
     leaves |-> <<>>,
     overtimes |-> <<>>,
     announcements |-> <<>>,
     holidays |-> <<>>]

\* StorageService.loadData: JSON.parse of what saveData stored; on strings,
\* numbers that are multiples of 0.5 and arrays of them JSON.stringify and
\* JSON.parse are inverse, so the data read is the data written.
loadData == localStorage

\* Mutant of RecalculateLeaves: the engine's value is added to the hours
\* the leave already holds (leave.hours += ...).
RecalculateAdding(leaves, holidays) ==
    [i \in 1..Len(leaves) |->
        IF leaves[i].status # "cancelled" /\ leaves[i].status # "rejected"
        THEN [leaves[i] EXCEPT !.hours =
                 @ + calculateLeaveHours(tz, leaves[i].start, leaves[i].end, holidays)]
        ELSE leaves[i]]

\* Mutant of RecalculateLeaves: every leave is recomputed, whatever its status.
RecalculateEveryStatus(leaves, holidays) ==
    [i \in 1..Len(leaves) |->
        [leaves[i] EXCEPT !.hours =
            calculateLeaveHours(tz, leaves[i].start, leaves[i].end, holidays)]]

\* Mutant of RecalculateLeaves: only pending leaves are recomputed.
RecalculatePendingOnly(leaves, holidays) ==
    [i \in 1..Len(leaves) |->
        IF leaves[i].status = "pending"
        THEN [leaves[i] EXCEPT !.hours =
                 calculateLeaveHours(tz, leaves[i].start, leaves[i].end, holidays)]
        ELSE leaves[i]]

\* data.leaves.forEach(leave => { if (leave.status !== 'cancelled' &&
\*   leave.status !== 'rejected') leave.hours = calculateLeaveHours(...) })
RecalculateLeaves(leaves, holidays) ==
    [i \in 1..Len(leaves) |->
        IF leaves[i].status # "cancelled" /\ leaves[i].status # "rejected"
        THEN [leaves[i] EXCEPT !.hours =
                 calculateLeaveHours(tz, leaves[i].start, leaves[i].end, holidays)]
        ELSE leaves[i]]

\* The forEach of the sweep ends in an exception: calculateLeaveHours throws
\* for a leave that is neither cancelled nor rejected, and nothing catches it.
SweepThrows(leaves) ==
    \E i \in 1..Len(leaves) :
        /\ leaves[i].status # "cancelled" /\ leaves[i].status # "rejected"
        /\ calculateLeaveHoursThrows(leaves[i].start, leaves[i].end)

\* seq.filter(x => x.id !== id)
RECURSIVE WithoutId(_, _)
WithoutId(seq, id) ==
    IF seq = <<>> THEN <<>>
    ELSE (IF Head(seq).id # id THEN <<Head(seq)>> ELSE <<>>)
         \o WithoutId(Tail(seq), id)

\* data.leaves.findIndex(l => l.id === id), 0 standing for -1
findIndex(seq, id) ==
    IF \E j \in 1..Len(seq) : seq[j].id = id
    THEN CHOOSE j \in 1..Len(seq) :
            seq[j].id = id /\ \A k \in 1..(j - 1) : seq[k].id # id
    ELSE 0

\* if (idx !== -1) { data.leaves[idx].status = status; saveData(data) }
WithStatus(data, id, status) ==
    LET idx == findIndex(data.leaves, id)
    IN  IF idx # 0
        THEN [data EXCEPT !.leaves[idx].status = status]
        ELSE data

\* StorageService.addLeave: data.leaves.unshift(leave); saveData(data)
addLeave(leave) ==
    LET data == loadData
    IN  localStorage' = [data EXCEPT !.leaves = <<leave>> \o data.leaves]

\* StorageService.updateLeaveStatus (the reject reason plays no part here)
updateLeaveStatus(id, status) ==
    localStorage' = WithStatus(loadData, id, status)

\* StorageService.cancelLeave
cancelLeave(id) ==
    localStorage' = WithStatus(loadData, id, "cancelled")

\* Mutant of addHoliday: the sweep runs over the overtime requests as well.
addHolidaySweepingOvertimes(h) ==
    LET data == loadData
        holidays == Append(data.holidays, h)
    IN  /\ localStorage' =
               IF SweepThrows(data.leaves) THEN localStorage
               ELSE [data EXCEPT !.holidays = holidays,
                                 !.leaves = RecalculateLeaves(data.leaves, holidays),
                                 !.overtimes = RecalculateLeaves(data.overtimes, holidays)]
        /\ uncaught' = (uncaught \/ SweepThrows(data.leaves))
        /\ UNCHANGED netVars

\* StorageService.addHoliday: push the holiday, recompute the hours of the
\* leaves that are neither cancelled nor rejected, save.  data is the
\* function's own copy (JSON.parse): when the sweep throws, saveData is not
\* reached, localStorage keeps what it held and the exception leaves the
\* caller's handler, which has no try either.
addHoliday(h) ==
    LET data == loadData
        holidays == Append(data.holidays, h)
    IN  /\ localStorage' =
               IF SweepThrows(data.leaves) THEN localStorage
               ELSE [data EXCEPT !.holidays = holidays,
                                 !.leaves = RecalculateLeaves(data.leaves, holidays)]
        /\ uncaught' = (uncaught \/ SweepThrows(data.leaves))
        /\ UNCHANGED netVars

\* StorageService.removeHoliday: drop the holidays of that id, recompute,
\* save; an exception in the sweep as in addHoliday.
removeHoliday(id) ==
    LET data == loadData
        holidays == WithoutId(data.holidays, id)
    IN  /\ localStorage' =
               IF SweepThrows(data.leaves) THEN localStorage
               ELSE [data EXCEPT !.holidays = holidays,
                                 !.leaves = RecalculateLeaves(data.leaves, holidays)]
        /\ uncaught' = (uncaught \/ SweepThrows(data.leaves))
        /\ UNCHANGED netVars

FormDays == 19782 .. (19782 + NumFormDays - 1)

\* The date the model's administrator makes a holiday, and may make one
\* twice: Thursday 2024-02-29
HolidayDates == {19782}

\* EmployeeDashboard's timeOptions: 08:30, 09:00, ... 12:00, 13:00, ... 17:30
timeOptions == {510} \cup {h * 60 + m : h \in 9..11, m \in {0, 30}} \cup {720}
               \cup {h * 60 + m : h \in 13..17, m \in {0, 30}}
\* those of them the model's employee picks: 08:30 and 17:30
FormTimes == timeOptions \cap {510, 1050}

\* The runtime zones of the browser the store lives in
StoreZones == {TaipeiOffset, -(5 * 60)}

Ids(seq) == {seq[i].id : i \in 1..Len(seq)}

\* id: Date.now(): a number no record of the list has yet.  Ids are only
\* compared for equality, so the least unused positive number stands for it.
DateNow(seq) == CHOOSE n \in 1..(Len(seq) + 1) : n \notin Ids(seq)

\* EmployeeDashboard's mount effect: setHolidays(StorageService.loadData().holidays)
Mount ==
    /\ viewHolidays' = loadData.holidays
    /\ UNCHANGED <<calcVars, localStorage, fireVars, uncaught, netVars, adminData>>

\* isLeaveDateValid: end >= start once both dates are filled in
isLeaveDateValid(startDate, startTime, endDate, endTime) ==
    NewDate(tz, LocalStr(endDate, endTime)) >= NewDate(tz, LocalStr(startDate, startTime))

\* The leave form's submit button, for a leave type without a quota (事假):
\* the stored hours are calculatedHours, computed against the view's holidays.
SubmitLeave(startDate, startTime, endDate, endTime) ==
    LET s == LocalStr(startDate, startTime)
        e == LocalStr(endDate, endTime)
        calculatedHours == calculateLeaveHours(tz, s, e, viewHolidays)
    IN  /\ isLeaveDateValid(startDate, startTime, endDate, endTime)
        /\ Len(localStorage.leaves) < MaxLeaves
        /\ addLeave([id |-> DateNow(localStorage.leaves),
                     userId |-> DEFAULT_EMPLOYEE.id, type |-> "personal",
                     start |-> s, end |-> e,
                     hours |-> calculatedHours, status |-> "pending"])
        /\ UNCHANGED <<calcVars, viewHolidays, fireVars, uncaught, netVars, adminData>>

\* AdminDashboard.handleAction('leave', id, status)
HandleLeaveAction(id, status) ==
    /\ updateLeaveStatus(id, status)
    /\ UNCHANGED <<calcVars, viewHolidays, fireVars, uncaught, netVars, adminData>>

\* EmployeeDashboard.executeCancelRequest with the right answer, for a leave
CancelRequest(id) ==
    /\ cancelLeave(id)
    /\ UNCHANGED <<calcVars, viewHolidays, fireVars, uncaught, netVars, adminData>>

\* AdminDashboard's holiday form: addHoliday({id: Date.now(), date, note})
AddHoliday(date) ==
    /\ Len(localStorage.holidays) < MaxStoreHolidays
    /\ addHoliday([id |-> DateNow(localStorage.holidays), date |-> YmdStr(date),
                   note |-> "note"])
    /\ UNCHANGED <<adminData, calcVars, viewHolidays, fireVars>>

\* AdminDashboard.handleDeleteResponse with the right answer, for a holiday
RemoveHoliday(id) ==
    /\ removeHoliday(id)
    /\ UNCHANGED <<adminData, calcVars, viewHolidays, fireVars>>

-----------------------------------------------------------------------------
(* The rest of the office: overtime requests, punches, announcements *)

\* most overtime requests, attendance records and announcements the store
\* holds, each
MaxOvertimes == 1
MaxRecords == 1
MaxAnnouncements == 1
\* most leave requests, overtime requests, attendance records and
\* announcements the store holds between them when all of them are in play
MaxEntries == 2

\* EmployeeDashboard's otTimeOptions: every half-hour of the day
otTimeOptions == {h * 60 + m : h \in 0..23, m \in {0, 30}}
\* those of them the model's employee picks: the form's defaults, 18:00, 20:00
OtFormTimes == otTimeOptions \cap {1080, 1200}

\* (x).toFixed(1) of a number of hours given in minutes: the nearest tenth
toFixed1(minutes) == (minutes + 3) \div 6

\* EmployeeDashboard's calculatedOTHours: the plain length of the span
calculatedOTHours(startDate, startTime, endDate, endTime) ==
    LET s == NewDate(tz, LocalStr(startDate, startTime))
        e == NewDate(tz, LocalStr(endDate, endTime))
        diffMs == e - s
    IN  IF diffMs <= 0 THEN 0 ELSE toFixed1(diffMs)

\* isOtDateValid: end >= start once both dates are filled in
isOtDateValid(startDate, startTime, endDate, endTime) ==
    NewDate(tz, LocalStr(endDate, endTime)) >= NewDate(tz, LocalStr(startDate, startTime))

\* StorageService.addOvertime: data.overtimes.unshift(ot); saveData(data)
addOvertime(ot) ==
    LET data == loadData
    IN  localStorage' = [data EXCEPT !.overtimes = <<ot>> \o data.overtimes]

\* if (idx !== -1) { data.overtimes[idx].status = status; saveData(data) }
WithOvertimeStatus(data, id, status) ==
    LET idx == findIndex(data.overtimes, id)
    IN  IF idx # 0
        THEN [data EXCEPT !.overtimes[idx].status = status]
        ELSE data

\* StorageService.updateOvertimeStatus
updateOvertimeStatus(id, status) ==
    localStorage' = WithOvertimeStatus(loadData, id, status)

\* StorageService.cancelOvertime
cancelOvertime(id) ==
    localStorage' = WithOvertimeStatus(loadData, id, "cancelled")

\* StorageService.addRecord: data.records.unshift(record); saveData(data)
addRecord(record) ==
    LET data == loadData
    IN  localStorage' = [data EXCEPT !.records = <<record>> \o data.records]

\* StorageService.addAnnouncement with an id no announcement has yet
addAnnouncement(ann) ==
    LET data == loadData
        idx == findIndex(data.announcements, ann.id)
    IN  localStorage' =
            IF idx # 0 THEN [data EXCEPT !.announcements[idx] = ann]
            ELSE [data EXCEPT !.announcements = <<ann>> \o data.announcements]

\* The number of requests, records and announcements of the store
Entries ==
    Len(localStorage.leaves) + Len(localStorage.overtimes)
    + Len(localStorage.records) + Len(localStorage.announcements)

\* The overtime form's submit button
SubmitOvertime(startDate, startTime, endDate, endTime) ==
    /\ isOtDateValid(startDate, startTime, endDate, endTime)
    /\ Len(localStorage.overtimes) < MaxOvertimes
    /\ Entries < MaxEntries
    /\ addOvertime([id |-> DateNow(localStorage.overtimes),
                    userId |-> DEFAULT_EMPLOYEE.id,
                    start |-> LocalStr(startDate, startTime),
                    end |-> LocalStr(endDate, endTime),
                    hours |-> calculatedOTHours(startDate, startTime, endDate, endTime),
                    status |-> "pending"])
    /\ UNCHANGED <<calcVars, viewHolidays, fireVars, uncaught, netVars, adminData>>

\* AdminDashboard.handleAction('ot', id, status)
HandleOvertimeAction(id, status) ==
    /\ updateOvertimeStatus(id, status)
    /\ UNCHANGED <<calcVars, viewHolidays, fireVars, uncaught, netVars, adminData>>

\* EmployeeDashboard.executeCancelRequest with the right answer, for overtime
CancelOvertimeRequest(id) ==
    /\ cancelOvertime(id)
    /\ UNCHANGED <<calcVars, viewHolidays, fireVars, uncaught, netVars, adminData>>

\* EmployeeDashboard.executePunch with the right answer
executePunch(type) ==
    /\ Len(localStorage.records) < MaxRecords
    /\ Entries < MaxEntries
    /\ addRecord([id |-> DateNow(localStorage.records),
                  userId |-> DEFAULT_EMPLOYEE.id, type |-> type])
    /\ UNCHANGED <<calcVars, viewHolidays, fireVars, uncaught, netVars, adminData>>

\* AdminDashboard.handleAnnSave for a new announcement
handleAnnSave ==
    /\ Len(localStorage.announcements) < MaxAnnouncements
    /\ Entries < MaxEntries
    /\ addAnnouncement([id |-> DateNow(localStorage.announcements),
                        title |-> "title"])
    /\ UNCHANGED <<calcVars, viewHolidays, fireVars, uncaught, netVars, adminData>>

-----------------------------------------------------------------------------
(* The two dashboards with their views: the administrator acts on the data
   state it loaded, the employee form checks the quotas *)

\* The leave types with a quota: 特休, 生日假, 補休
QuotaTypes == {"annual", "birthday", "comp"}

\* DEFAULT_EMPLOYEE's quota_annual 7, quota_birthday 1, quota_comp 0, in
\* tenths of an hour as the hours they are compared with
Quota(type) ==
    CASE type = "annual" -> 70
      [] type = "birthday" -> 10
      [] type = "comp" -> 0

\* quotaStats' calculateUsed: the hours of the user's approved and pending
\* leaves of the type
RECURSIVE calculateUsed(_, _)
calculateUsed(allLeaves, type) ==
    IF allLeaves = <<>> THEN 0
    ELSE (IF /\ Head(allLeaves).userId = DEFAULT_EMPLOYEE.id
             /\ Head(allLeaves).type = type
             /\ Head(allLeaves).status \in {"approved", "pending"}
          THEN Head(allLeaves).hours ELSE 0)
         + calculateUsed(Tail(allLeaves), type)

\* quotaCheck.valid: limit is the type's remaining quota, Infinity for a
\* type without one
quotaCheck(type, calculatedHours) ==
    ~(/\ type \in QuotaTypes
      /\ calculatedHours > Quota(type) - calculateUsed(loadData.leaves, type))

\* The leave form's submit button for a leave of the given type: disabled
\* unless isLeaveDateValid and quotaCheck.valid
SubmitTypedLeave(type, startDate, startTime, endDate, endTime) ==
    LET s == LocalStr(startDate, startTime)
        e == LocalStr(endDate, endTime)
        calculatedHours == calculateLeaveHours(tz, s, e, viewHolidays)
    IN  /\ isLeaveDateValid(startDate, startTime, endDate, endTime)
        /\ quotaCheck(type, calculatedHours)
        /\ Len(localStorage.leaves) < MaxLeaves
        /\ addLeave([id |-> DateNow(localStorage.leaves),
                     userId |-> DEFAULT_EMPLOYEE.id, type |-> type,
                     start |-> s, end |-> e,
                     hours |-> calculatedHours, status |-> "pending"])
        /\ UNCHANGED <<calcVars, viewHolidays, fireVars, uncaught, netVars, adminData>>

\* AdminDashboard mounts: useState(StorageService.loadData())
AdminMount ==
    /\ adminData' = loadData
    /\ UNCHANGED <<calcVars, storeVars, fireVars, uncaught, netVars>>

\* The request is in the list the view shows with its two buttons
PendingIn(seq, id) ==
    \E i \in 1..Len(seq) : seq[i].id = id /\ seq[i].status = "pending"

\* A button of the administrator's pending leave list:
\* handleAction('leave', id, status), which ends in refreshData()
ReviewLeave(id, status) ==
    /\ PendingIn(adminData.leaves, id)
    /\ updateLeaveStatus(id, status)
    /\ adminData' = localStorage'
    /\ UNCHANGED <<calcVars, viewHolidays, fireVars, uncaught, netVars>>

\* The same for the pending overtime list
ReviewOvertime(id, status) ==
    /\ PendingIn(adminData.overtimes, id)
    /\ updateOvertimeStatus(id, status)
    /\ adminData' = localStorage'
    /\ UNCHANGED <<calcVars, viewHolidays, fireVars, uncaught, netVars>>

\* The employee's cancel link, shown for a pending request of the list the
\* dashboard renders from loadData() every second
CancelPendingLeave(id) ==
    /\ PendingIn(loadData.leaves, id)
    /\ cancelLeave(id)
    /\ UNCHANGED <<calcVars, viewHolidays, fireVars, uncaught, netVars, adminData>>

CancelPendingOvertime(id) ==
    /\ PendingIn(loadData.overtimes, id)
    /\ cancelOvertime(id)
    /\ UNCHANGED <<calcVars, viewHolidays, fireVars, uncaught, netVars, adminData>>

\* The holiday form with the view in the picture: addHoliday, then
\* refreshData() unless the sweep threw
ViewAddHoliday(date) ==
    /\ Len(localStorage.holidays) < MaxStoreHolidays
    /\ addHoliday([id |-> DateNow(localStorage.holidays), date |-> YmdStr(date),
                   note |-> "note"])
    /\ adminData' = IF SweepThrows(loadData.leaves) THEN adminData ELSE localStorage'
    /\ UNCHANGED <<calcVars, viewHolidays, fireVars>>

\* handleDeleteResponse for a holiday of the view, then refreshData()
ViewRemoveHoliday(id) ==
    /\ id \in Ids(adminData.holidays)
    /\ removeHoliday(id)
    /\ adminData' = IF SweepThrows(loadData.leaves) THEN adminData ELSE localStorage'
    /\ UNCHANGED <<calcVars, viewHolidays, fireVars>>

\* Leaves against quotas
QuotaNext ==
    \/ Mount
    \/ \E type \in {"annual", "birthday"}, sd \in FormDays, et \in timeOptions \cap {720, 1050} :
          SubmitTypedLeave(type, sd, 510, sd, et)
    \/ AdminMount
    \/ \E id \in Ids(adminData.leaves), status \in {"approved", "rejected"} :
          ReviewLeave(id, status)
    \/ \E id \in Ids(localStorage.leaves) : CancelPendingLeave(id)
    \/ \E date \in HolidayDates : ViewAddHoliday(date)
    \/ \E id \in Ids(adminData.holidays) : ViewRemoveHoliday(id)

\* Requests under review
ReviewNext ==
    \/ \E sd \in FormDays : SubmitLeave(sd, 510, sd, 1050)
    \/ \E sd \in FormDays : SubmitOvertime(sd, 1080, sd, 1200)
    \/ AdminMount
    \/ \E id \in Ids(adminData.leaves), status \in {"approved", "rejected"} :
          ReviewLeave(id, status)
    \/ \E id \in Ids(adminData.overtimes), status \in {"approved", "rejected"} :
          ReviewOvertime(id, status)
    \/ \E id \in Ids(localStorage.leaves) : CancelPendingLeave(id)
    \/ \E id \in Ids(localStorage.overtimes) : CancelPendingOvertime(id)

-----------------------------------------------------------------------------
(* The store filled from the cloud: StorageService.fetchCloudData *)

\* most leave requests the cloud's answer holds
MaxCloudLeaves == 2

\* A leave request as the spreadsheet behind the cloud URL may return it: as
\* the form stored it (a whole Thursday 2024-02-29, 8.0 hours), or with a
\* number in its start cell
CloudLeave(id, start, status) ==
    [id |-> id, userId |-> DEFAULT_EMPLOYEE.id, type |-> "personal",
     start |-> start, end |-> LocalStr(19782, 1050), hours |-> 80,
     status |-> status]

CloudLeaveLists ==
    UNION {[1..n -> {LocalStr(19782, 510), NumberVal} \X {"pending", "cancelled"}]
              : n \in 0..MaxCloudLeaves}

\* What response.json() may hold
CloudData ==
    {[getInitialData EXCEPT
         !.users = users,
         !.leaves = [i \in 1..Len(ls) |-> CloudLeave(i, ls[i][1], ls[i][2])],
         !.holidays = holidays]
       : users \in {<<>>, getInitialData.users},
         ls \in CloudLeaveLists,
         holidays \in {<<>>, <<[id |-> 1, date |-> YmdStr(19782), note |-> "note"]>>}}

\* fetchCloudData once the response is in: an answer without users makes
\* the store the initial data, any other answer is stored as it came.
fetchCloudData(cloudData) ==
    /\ localStorage' = IF Len(cloudData.users) = 0 THEN getInitialData
                       ELSE cloudData
    /\ UNCHANGED <<calcVars, viewHolidays, fireVars, uncaught, netVars, adminData>>

CloudNext ==
    \/ \E cloudData \in CloudData : fetchCloudData(cloudData)
    \/ \E date \in HolidayDates : AddHoliday(date)
    \/ \E id \in Ids(localStorage.holidays) : RemoveHoliday(id)

-----------------------------------------------------------------------------
(* The Firestore-backed StorageService.addRecord and the records listener
   (services/storageService.ts) *)

\* most addRecord calls made, and most records written from another device
MaxAddCalls == 2
MaxForeign == 1

\* The collection and the mirror, empty, and no call made
RecIdle ==
    /\ recordsDb = {}
    /\ recordsCache = <<>>
    /\ addCalls = <<>>

\* list.sort((a, b) => b.id - a.id), orderBy('id', 'desc')
RECURSIVE SortedById(_)
SortedById(S) ==
    IF S = {} THEN <<>>
    ELSE LET top == CHOOSE r \in S : \A q \in S : q.id <= r.id
         IN  <<top>> \o SortedById(S \ {top})

\* The records whose addDoc has not settled: the writes the SDK holds
PendingRecords ==
    {addCalls[c].record : c \in {k \in 1..Len(addCalls) : addCalls[k].state = "pending"}}

\* id: Date.now(): later than every id given so far, on any device
RecordNow == Len(addCalls) + Cardinality(recordsDb \ {addCalls[c].record : c \in 1..Len(addCalls)}) + 1

\* addRecord up to its await: the record is put at the head of
\* _memoryCache.records and addDoc is started.
fsAddRecord(type) ==
    LET record == [id |-> RecordNow, userId |-> DEFAULT_EMPLOYEE.id, type |-> type]
    IN  /\ Len(addCalls) < MaxAddCalls
        /\ recordsCache' = <<record>> \o recordsCache
        /\ addCalls' = Append(addCalls, [record |-> record, state |-> "pending",
                                         before |-> recordsCache])
        /\ UNCHANGED <<adminData, calcVars, storeVars, fireVars, uncaught, syncVars, timeVars,
                       recordsDb>>

\* addDoc resolves: the document is in the collection, addRecord returns
WriteSucceeds(c) ==
    /\ addCalls[c].state = "pending"
    /\ recordsDb' = recordsDb \cup {addCalls[c].record}
    /\ addCalls' = [addCalls EXCEPT ![c].state = "resolved"]
    /\ UNCHANGED <<adminData, calcVars, storeVars, fireVars, uncaught, syncVars, timeVars,
                   recordsCache>>

\* Mutant of WriteFails: the catch rethrows without the rollback.
WriteFailsWithoutRollback(c) ==
    /\ addCalls[c].state = "pending"
    /\ addCalls' = [addCalls EXCEPT ![c].state = "rejected"]
    /\ UNCHANGED <<adminData, calcVars, storeVars, fireVars, uncaught, syncVars, timeVars,
                   recordsDb, recordsCache>>

\* addDoc rejects: the catch filters the record's id out of
\* _memoryCache.records and rethrows, so addRecord's promise rejects.
WriteFails(c) ==
    /\ addCalls[c].state = "pending"
    /\ recordsCache' = WithoutId(recordsCache, addCalls[c].record.id)
    /\ addCalls' = [addCalls EXCEPT ![c].state = "rejected"]
    /\ UNCHANGED <<adminData, calcVars, storeVars, fireVars, uncaught, syncVars, timeVars,
                   recordsDb>>

\* The records onSnapshot callback of initRealtimeSync for an employee:
\* the user's documents, the writes still pending among them, sorted by id
\* descending, replace _memoryCache.records.
fsRecordsSnapshot ==
    /\ recordsCache # SortedById(recordsDb \cup PendingRecords)
    /\ recordsCache' = SortedById(recordsDb \cup PendingRecords)
    /\ UNCHANGED <<adminData, calcVars, storeVars, fireVars, uncaught, syncVars, timeVars,
                   recordsDb, addCalls>>

\* The same user punches on another device: a document the mirror has not
\* seen yet
OtherDevicePunch(type) ==
    /\ Cardinality(recordsDb \ {addCalls[c].record : c \in 1..Len(addCalls)}) < MaxForeign
    /\ recordsDb' = recordsDb \cup
          {[id |-> RecordNow, userId |-> DEFAULT_EMPLOYEE.id, type |-> type]}
    /\ UNCHANGED <<adminData, calcVars, storeVars, fireVars, uncaught, syncVars, timeVars,
                   recordsCache, addCalls>>

RecordNext ==
    \/ \E type \in {"in", "out"} : fsAddRecord(type)
    \/ \E c \in 1..Len(addCalls) : WriteSucceeds(c)
    \/ \E c \in 1..Len(addCalls) : WriteFails(c)
    \/ fsRecordsSnapshot
    \/ \E type \in {"in", "out"} : OtherDevicePunch(type)

-----------------------------------------------------------------------------
(* TimeService.getNetworkTimeOffset (services/timeService.ts) *)

\* The three time sources raced by promiseAny
NumSources == 3
\* serverTime - Date.now() as a source may report it, 0 among them
Offsets == {-1, 0, 1}

\* Before the call
TimeIdle ==
    /\ sources = [i \in 1..NumSources |-> [state |-> "idle", value |-> 0]]
    /\ rejectedCount = 0
    /\ answered = <<>>
    /\ offset = <<>>
    /\ RecIdle

\* The call: promiseAny over three fetchWithTimeout promises, all pending
getNetworkTimeOffset ==
    /\ \A i \in 1..NumSources : sources[i].state = "idle"
    /\ sources' = [i \in 1..NumSources |-> [state |-> "pending", value |-> 0]]
    /\ UNCHANGED <<adminData, recVars, calcVars, storeVars, fireVars, uncaught, syncVars,
                   rejectedCount, answered, offset>>

\* fetchWithTimeout returns serverTime - localTime; promiseAny's
\* then(resolve) settles the race when it is the first to call it, and
\* the await hands the value to return offset.
SourceAnswers(i, value) ==
    /\ sources[i].state = "pending"
    /\ sources' = [sources EXCEPT ![i] = [state |-> "fulfilled", value |-> value]]
    /\ answered' = Append(answered, i)
    /\ offset' = IF offset = <<>> THEN <<[k |-> "number", v |-> value]>>
                 ELSE offset
    /\ UNCHANGED <<adminData, recVars, calcVars, storeVars, fireVars, uncaught, syncVars, rejectedCount>>

\* Mutant of SourceFails: when the last source fails the offset is 0, the
\* local time.
SourceFailsToLocalTime(i) ==
    /\ sources[i].state = "pending"
    /\ sources' = [sources EXCEPT ![i].state = "rejected"]
    /\ rejectedCount' = rejectedCount + 1
    /\ offset' = IF rejectedCount' = NumSources /\ offset = <<>>
                 THEN <<[k |-> "number", v |-> 0]>>
                 ELSE offset
    /\ UNCHANGED <<adminData, recVars, calcVars, storeVars, fireVars, uncaught, syncVars, answered>>

\* fetchWithTimeout throws (network error, response not ok, no time in the
\* body): promiseAny's catch counts it and rejects when it is the last
\* one; getNetworkTimeOffset's catch then returns null.
SourceFails(i) ==
    /\ sources[i].state = "pending"
    /\ sources' = [sources EXCEPT ![i].state = "rejected"]
    /\ rejectedCount' = rejectedCount + 1
    /\ offset' = IF rejectedCount' = NumSources /\ offset = <<>>
                 THEN <<[k |-> "null", v |-> 0]>>
                 ELSE offset
    /\ UNCHANGED <<adminData, recVars, calcVars, storeVars, fireVars, uncaught, syncVars, answered>>

\* The 5000 ms timer aborts the fetch, which rejects: the same catch path
SourceTimesOut(i) ==
    /\ sources[i].state = "pending"
    /\ sources' = [sources EXCEPT ![i].state = "timed out"]
    /\ rejectedCount' = rejectedCount + 1
    /\ offset' = IF rejectedCount' = NumSources /\ offset = <<>>
                 THEN <<[k |-> "null", v |-> 0]>>
                 ELSE offset
    /\ UNCHANGED <<adminData, recVars, calcVars, storeVars, fireVars, uncaught, syncVars, answered>>

TimeNext ==
    \/ getNetworkTimeOffset
    \/ \E i \in 1..NumSources, value \in Offsets : SourceAnswers(i, value)
    \/ \E i \in 1..NumSources : SourceFails(i)
    \/ \E i \in 1..NumSources : SourceTimesOut(i)

-----------------------------------------------------------------------------
(* The cloud synchronisation of the localStorage-backed StorageService:
   fetchCloudData and saveData against the cloud URL *)

\* most cloud fetches started, and most fetchCloudData calls made
MaxFetches == 2
MaxCalls == 3

\* let _activeCloudFetch = null, no request made, the cloud holding the
\* initial data
NetIdle ==
    /\ activeCloudFetch = 0
    /\ fetches = <<>>
    /\ returned = <<>>
    /\ timers = {}
    /\ cloud = getInitialData
    /\ posts = <<>>
    /\ savedInFlight = {}
    /\ TimeIdle

\* The promise in the slot has not settled yet
InFlight ==
    activeCloudFetch # 0 /\ fetches[activeCloudFetch].state # "settled"

\* Mutant of fetchCloudDataCall: the slot is not consulted, every call
\* starts a request.
fetchCloudDataAlwaysNew ==
    /\ Len(returned) < MaxCalls
    /\ Len(fetches) < MaxFetches
    /\ activeCloudFetch' = Len(fetches) + 1
    /\ fetches' = Append(fetches, [state |-> "sent", response |-> <<>>])
    /\ returned' = Append(returned, Len(fetches) + 1)
    /\ savedInFlight' = {}
    /\ UNCHANGED <<adminData, recVars, timeVars, calcVars, storeVars, fireVars, uncaught, timers, cloud, posts>>

\* A call of fetchCloudData, up to its return: the promise in the slot when
\* there is one, else fetch(gasUrl) with its then/catch/finally chain,
\* stored in the slot (the default gasUrl is not empty).
fetchCloudDataCall ==
    /\ Len(returned) < MaxCalls
    /\ IF activeCloudFetch # 0
       THEN /\ returned' = Append(returned, activeCloudFetch)
            /\ UNCHANGED <<adminData, activeCloudFetch, fetches, savedInFlight>>
       ELSE /\ Len(fetches) < MaxFetches
            /\ activeCloudFetch' = Len(fetches) + 1
            /\ fetches' = Append(fetches, [state |-> "sent", response |-> <<>>])
            /\ returned' = Append(returned, Len(fetches) + 1)
            /\ savedInFlight' = {}
    /\ UNCHANGED <<adminData, recVars, timeVars, calcVars, storeVars, fireVars, uncaught, timers, cloud, posts>>

\* The cloud answers a GET with the data it holds at that moment
CloudAnswers(p) ==
    /\ fetches[p].state = "sent"
    /\ fetches' = [fetches EXCEPT ![p] = [state |-> "answered", response |-> <<cloud>>]]
    /\ UNCHANGED <<adminData, recVars, timeVars, calcVars, storeVars, fireVars, uncaught, activeCloudFetch,
                   returned, timers, cloud, posts, savedInFlight>>

\* The then and finally callbacks of a fetch whose answer is in: an answer
\* without users makes the store the initial data and posts it, any other
\* answer is written to localStorage as it came; the timer is armed.
FetchSettles(p) ==
    /\ fetches[p].state = "answered"
    /\ LET cloudData == fetches[p].response[1]
       IN  IF Len(cloudData.users) = 0
           THEN /\ localStorage' = getInitialData
                /\ posts' = Append(posts, getInitialData)
           ELSE /\ localStorage' = cloudData
                /\ posts' = posts
    /\ fetches' = [fetches EXCEPT ![p].state = "settled"]
    /\ timers' = timers \cup {p}
    /\ UNCHANGED <<adminData, recVars, timeVars, calcVars, viewHolidays, fireVars, uncaught, activeCloudFetch,
                   returned, cloud, savedInFlight>>

\* The catch and finally callbacks: the request failed or the response was
\* not ok; the promise resolves to null and the timer is armed.
FetchFails(p) ==
    /\ fetches[p].state \in {"sent", "answered"}
    /\ fetches' = [fetches EXCEPT ![p].state = "settled"]
    /\ timers' = timers \cup {p}
    /\ UNCHANGED <<adminData, recVars, timeVars, calcVars, storeVars, fireVars, uncaught, activeCloudFetch,
                   returned, cloud, posts, savedInFlight>>

\* setTimeout(() => { _activeCloudFetch = null; }, 1000) fires
ClearSlot(p) ==
    /\ p \in timers
    /\ timers' = timers \ {p}
    /\ activeCloudFetch' = 0
    /\ UNCHANGED <<adminData, recVars, timeVars, calcVars, storeVars, fireVars, uncaught, fetches, returned,
                   cloud, posts, savedInFlight>>

\* The leave form's submit button with the cloud in the picture: addLeave
\* ends in saveData, which writes localStorage and then posts the data.
SaveLeave(startDate, startTime, endDate, endTime) ==
    LET s == LocalStr(startDate, startTime)
        e == LocalStr(endDate, endTime)
        id == DateNow(localStorage.leaves)
    IN  /\ Len(localStorage.leaves) < MaxLeaves
        /\ addLeave([id |-> id,
                     userId |-> DEFAULT_EMPLOYEE.id, type |-> "personal",
                     start |-> s, end |-> e,
                     hours |-> calculateLeaveHours(tz, s, e, viewHolidays),
                     status |-> "pending"])
        /\ posts' = Append(posts, localStorage')
        /\ savedInFlight' = IF InFlight THEN savedInFlight \cup {id}
                            ELSE savedInFlight
        /\ UNCHANGED <<adminData, recVars, timeVars, calcVars, viewHolidays, fireVars, uncaught,
                       activeCloudFetch, fetches, returned, timers, cloud>>

\* The cloud takes a POST: the body replaces what it held
CloudTakesPost ==
    /\ posts # <<>>
    /\ cloud' = Head(posts)
    /\ posts' = Tail(posts)
    /\ UNCHANGED <<adminData, recVars, timeVars, calcVars, storeVars, fireVars, uncaught, activeCloudFetch,
                   fetches, returned, timers, savedInFlight>>

\* The POST fails: saveData's catch logs a warning
PostFails ==
    /\ posts # <<>>
    /\ posts' = Tail(posts)
    /\ UNCHANGED <<adminData, recVars, timeVars, calcVars, storeVars, fireVars, uncaught, activeCloudFetch,
                   fetches, returned, timers, cloud, savedInFlight>>

SyncNext ==
    \/ fetchCloudDataCall
    \/ \E p \in 1..Len(fetches) : CloudAnswers(p)
    \/ \E p \in 1..Len(fetches) : FetchSettles(p)
    \/ \E p \in 1..Len(fetches) : FetchFails(p)
    \/ \E p \in timers : ClearSlot(p)
    \/ \E sd \in FormDays : SaveLeave(sd, 510, sd, 1050)
    \/ CloudTakesPost
    \/ PostFails

-----------------------------------------------------------------------------
(* The Firestore-backed StorageService (services/storageService.ts) *)

\* The holidays and leaves collections, empty, and the mirror of the first
fsInitialData == [holidays |-> <<>>, leaves |-> <<>>]
fsInitialCache == [holidays |-> <<>>]

FireIdle ==
    /\ firestore = fsInitialData
    /\ memoryCache = fsInitialCache
    /\ uncaught = FALSE
    /\ NetIdle
    /\ adminData = getInitialData

\* The holidays onSnapshot callback of initRealtimeSync:
\* _memoryCache.holidays = snapshot.docs.map(...)
fsHolidaysSnapshot ==
    /\ memoryCache.holidays # firestore.holidays
    /\ memoryCache' = [memoryCache EXCEPT !.holidays = firestore.holidays]
    /\ UNCHANGED <<calcVars, localStorage, viewHolidays, firestore, uncaught, netVars, adminData>>

\* EmployeeDashboard's mount effect over the Firestore-backed loadData,
\* which returns _memoryCache
fsMount ==
    /\ viewHolidays' = memoryCache.holidays
    /\ UNCHANGED <<calcVars, localStorage, fireVars, uncaught, netVars, adminData>>

\* The leave form's submit button: addLeave is addDoc(collection(db,'leaves'), leave)
fsSubmitLeave(startDate, startTime, endDate, endTime) ==
    LET s == LocalStr(startDate, startTime)
        e == LocalStr(endDate, endTime)
        calculatedHours == calculateLeaveHours(tz, s, e, viewHolidays)
    IN  /\ isLeaveDateValid(startDate, startTime, endDate, endTime)
        /\ Len(firestore.leaves) < MaxLeaves
        /\ firestore' = [firestore EXCEPT !.leaves =
               Append(@, [id |-> DateNow(firestore.leaves),
                          userId |-> DEFAULT_EMPLOYEE.id, type |-> "personal",
                          start |-> s, end |-> e,
                          hours |-> calculatedHours, status |-> "pending"])]
        /\ UNCHANGED <<calcVars, localStorage, viewHolidays, memoryCache, uncaught, netVars, adminData>>

\* updateLeaveStatus: updateDoc(doc, {status, rejectReason}) on every
\* document whose id field is id
fsUpdateLeaveStatus(id, status) ==
    /\ firestore' = [firestore EXCEPT !.leaves =
           [i \in 1..Len(@) |-> IF @[i].id = id
                                THEN [@[i] EXCEPT !.status = status]
                                ELSE @[i]]]
    /\ UNCHANGED <<calcVars, localStorage, viewHolidays, memoryCache, uncaught, netVars, adminData>>

\* addHoliday: await addDoc(collection(db, 'holidays'), h), and no more
fsAddHoliday(date) ==
    /\ Len(firestore.holidays) < MaxStoreHolidays
    /\ firestore' = [firestore EXCEPT !.holidays =
           Append(@, [id |-> DateNow(firestore.holidays), date |-> YmdStr(date),
                      note |-> "note"])]
    /\ UNCHANGED <<calcVars, localStorage, viewHolidays, memoryCache, uncaught, netVars, adminData>>

\* removeHoliday: deleteDoc on every document whose id field is id, and no more
fsRemoveHoliday(id) ==
    /\ firestore' = [firestore EXCEPT !.holidays = WithoutId(@, id)]
    /\ UNCHANGED <<calcVars, localStorage, viewHolidays, memoryCache, uncaught, netVars, adminData>>

FireInit ==
    /\ tz \in StoreZones
    /\ startStr = EmptyStr
    /\ endStr = EmptyStr
    /\ argHolidays = <<>>
    /\ result = 0
    /\ pc = "firestore"
    /\ localStorage = getInitialData
    /\ viewHolidays = <<>>
    /\ FireIdle

FireNext ==
    \/ fsHolidaysSnapshot
    \/ fsMount
    \/ \E sd \in FormDays : fsSubmitLeave(sd, 510, sd, 1050)
    \/ \E id \in Ids(firestore.leaves), status \in {"approved", "rejected"} :
          fsUpdateLeaveStatus(id, status)
    \/ \E date \in HolidayDates : fsAddHoliday(date)
    \/ \E id \in Ids(firestore.holidays) : fsRemoveHoliday(id)

FireSpec == FireInit /\ [][FireNext]_vars

Init ==
    /\ tz \in StoreZones
    /\ startStr = EmptyStr
    /\ endStr = EmptyStr
    /\ argHolidays = <<>>
    /\ result = 0
    /\ pc = "store"
    /\ localStorage = getInitialData
    /\ viewHolidays = <<>>
    /\ FireIdle

Next ==
    \/ Mount
    \/ \E sd \in FormDays, st \in FormTimes, ed \in FormDays, et \in FormTimes :
          SubmitLeave(sd, st, ed, et)
    \/ \E id \in Ids(localStorage.leaves), status \in {"approved", "rejected"} :
          HandleLeaveAction(id, status)
    \/ \E id \in Ids(localStorage.leaves) : CancelRequest(id)
    \/ \E date \in HolidayDates : AddHoliday(date)
    \/ \E id \in Ids(localStorage.holidays) : RemoveHoliday(id)

Spec == Init /\ [][Next]_vars

\* The whole office at work: the leave form is given whole days
OfficeNext ==
    \/ Mount
    \/ \E sd \in FormDays :
          Entries < MaxEntries /\ SubmitLeave(sd, 510, sd, 1050)
    \/ \E id \in Ids(localStorage.leaves), status \in {"approved", "rejected"} :
          HandleLeaveAction(id, status)
    \/ \E id \in Ids(localStorage.leaves) : CancelRequest(id)
    \/ \E sd \in FormDays : SubmitOvertime(sd, 1080, sd, 1200)
    \/ \E id \in Ids(localStorage.overtimes), status \in {"approved", "rejected"} :
          HandleOvertimeAction(id, status)
    \/ \E id \in Ids(localStorage.overtimes) : CancelOvertimeRequest(id)
    \/ \E type \in {"in"} : executePunch(type)
    \/ handleAnnSave
    \/ \E date \in HolidayDates : AddHoliday(date)
    \/ \E id \in Ids(localStorage.holidays) : RemoveHoliday(id)

OfficeSpec == Init /\ [][OfficeNext]_vars

\* The store filled from the cloud and the administrator's holiday form
CloudSpec == Init /\ [][CloudNext]_vars

\* The store with its cloud: the browser is in the business zone
SyncInit == Init /\ tz = TaipeiOffset
SyncSpec == SyncInit /\ [][SyncNext]_vars

\* The leave form with its quota check, the administrator with its view
QuotaSpec == Init /\ [][QuotaNext]_vars

\* The employee and the administrator on the same requests
ReviewSpec == Init /\ [][ReviewNext]_vars

\* The Firestore-backed attendance records alone
RecordSpec == FireInit /\ [][RecordNext]_vars

\* The clock correction alone
TimeSpec == SyncInit /\ [][TimeNext]_vars

-----------------------------------------------------------------------------
(* The engine called on its own: the inputs are drawn, then the call is made *)

\* Runtime zones: Asia/Taipei (the business zone), UTC, America/New_York in
\* winter (UTC-05:00) and Asia/Tokyo (UTC+09:00).
Zones == {TaipeiOffset, 0, -(5 * 60), 9 * 60}

Timestamps == {LocalStr(d, m) : d \in Days, m \in TimesOfDay}

\* The days of S in increasing order
RECURSIVE SortedDays(_)
SortedDays(S) ==
    IF S = {} THEN <<>>
    ELSE LET d == CHOOSE x \in S : \A y \in S : x <= y
         IN  <<d>> \o SortedDays(S \ {d})

\* A Holiday[] of plain calendar dates (AdminDashboard's <input type="date">)
HolidayList(S) ==
    LET ds == SortedDays(S)
    IN  [i \in 1..Len(ds) |-> [id |-> i, date |-> YmdStr(ds[i]), note |-> "note"]]

HolidayLists == {HolidayList(S) : S \in {T \in SUBSET Days : Cardinality(T) <= MaxHolidays}}

StoreIdle ==
    /\ localStorage = getInitialData
    /\ viewHolidays = <<>>
    /\ FireIdle

CalcInit ==
    /\ tz \in Zones
    /\ startStr \in Timestamps
    /\ endStr \in Timestamps
    /\ argHolidays \in HolidayLists
    /\ result = 0
    /\ pc = "input"
    /\ StoreIdle

Calculate ==
    /\ pc = "input"
    /\ result' = calculateLeaveHours(tz, startStr, endStr, argHolidays)
    /\ pc' = "done"
    /\ UNCHANGED <<tz, startStr, endStr, argHolidays, storeVars, fireVars, uncaught, netVars, adminData>>

CalcNext == Calculate

CalcSpec == CalcInit /\ [][CalcNext]_vars

-----------------------------------------------------------------------------
(* The engine on arguments that are not timestamps *)

\* What a caller may hand over for start or end: nothing, the leave form's
\* draft with the date missing (' 08:30', ' 17:30'), a number out of the
\* cloud's JSON, or a timestamp of Thursday 2024-02-29
DraftValues ==
    {EmptyStr, NumberVal}
    \cup {TimeStr(m) : m \in TimesOfDay \cap {510, 1050}}
    \cup {LocalStr(19782, m) : m \in TimesOfDay \cap {510, 1050}}

DraftInit ==
    /\ tz \in Zones
    /\ startStr \in DraftValues
    /\ endStr \in DraftValues
    /\ argHolidays \in HolidayLists
    /\ result = 0
    /\ pc = "input"
    /\ StoreIdle

\* The call, whatever it is given: it returns, or a TypeError leaves it
CalculateDraft ==
    /\ pc = "input"
    /\ IF calculateLeaveHoursThrows(startStr, endStr)
       THEN /\ uncaught' = TRUE
            /\ result' = result
       ELSE /\ uncaught' = uncaught
            /\ result' = calculateLeaveHours(tz, startStr, endStr, argHolidays)
    /\ pc' = "done"
    /\ UNCHANGED <<tz, startStr, endStr, argHolidays, storeVars, fireVars, netVars, adminData>>

DraftNext == CalculateDraft

DraftSpec == DraftInit /\ [][DraftNext]_vars

-----------------------------------------------------------------------------
(* The engine called again and again by one caller holding its arguments *)

\* Times of day the repeated calls are given: 08:30, 12:20, 17:30
PureTimes == TimesOfDay \cap {510, 740, 1050}

PureInit ==
    /\ tz \in Zones
    /\ startStr \in {LocalStr(d, m) : d \in Days, m \in PureTimes}
    /\ endStr \in {LocalStr(d, m) : d \in Days, m \in PureTimes}
    /\ argHolidays \in HolidayLists
    /\ result = 0
    /\ pc = "input"
    /\ StoreIdle

\* A call on other arguments between two calls on the caller's own; what it
\* returns goes to the other caller.  The function assigns to its own
\* locals only (s, e, totalHours, current, and the Dates made in the loop).
CalculateOther ==
    /\ pc = "done"
    /\ \E start \in {startStr, endStr}, end \in {startStr, endStr},
          holidays \in {<<>>, argHolidays} :
            calculateLeaveHours(tz, start, end, holidays) >= 0
    /\ pc' = "interleaved"
    /\ UNCHANGED <<tz, startStr, endStr, argHolidays, result, storeVars, fireVars, uncaught, netVars, adminData>>

\* Mutant of CalculateAgain: the call consumes the holiday array it is
\* given (holidays.shift() in a loop instead of holidays.some).
CalculateAgainShifting ==
    /\ pc \in {"done", "interleaved"}
    /\ result' = calculateLeaveHours(tz, startStr, endStr, argHolidays)
    /\ argHolidays' = <<>>
    /\ pc' = IF pc = "done" THEN "again" ELSE "again after another"
    /\ UNCHANGED <<tz, startStr, endStr, storeVars, fireVars, uncaught, netVars, adminData>>

\* The caller's second call on the arguments of its first, which it holds
CalculateAgain ==
    /\ pc \in {"done", "interleaved"}
    /\ result' = calculateLeaveHours(tz, startStr, endStr, argHolidays)
    /\ pc' = IF pc = "done" THEN "again" ELSE "again after another"
    /\ UNCHANGED <<tz, startStr, endStr, argHolidays, storeVars, fireVars, uncaught, netVars, adminData>>

PureNext ==
    \/ Calculate
    \/ CalculateOther
    \/ CalculateAgain

PureSpec == PureInit /\ [][PureNext]_vars

-----------------------------------------------------------------------------
(* The calendar and the reference value the claims are stated with *)

\* Day of the week of calendar day d, 0 = Sunday (1970-01-01 was a Thursday)
Weekday(d) == (d + 4) % 7

\* The dates of a list of holidays given as plain calendar dates
HolidayDays(holidays) == {holidays[i].date.d : i \in 1..Len(holidays)}

NonWorking(d, H) == Weekday(d) \in {0, 6} \/ d \in H

\* A timestamp as minutes on the calendar's own axis (no zone involved)
Wall(x) == x.d * MinPerDay + x.m

\* Length of [a1, b1) /\ [a2, b2)
Overlap(a1, b1, a2, b2) == Max(0, Min(b1, b2) - Max(a1, a2))

\* Minutes of [S, E) inside day d's [08:30, 17:30), less those of them that
\* are inside [12:00, 13:00)
RefDay(S, E, d) ==
    LET base == d * MinPerDay
        inWork == Overlap(S, E, base + 510, base + 1050)
        inLunch == Overlap(Max(S, base + 510), Min(E, base + 1050),
                           base + 720, base + 780)
    IN  inWork - inLunch

RECURSIVE RefSum(_, _, _, _, _)
RefSum(S, E, H, d, last) ==
    IF d > last THEN 0
    ELSE (IF NonWorking(d, H) THEN 0 ELSE RefDay(S, E, d))
         + RefSum(S, E, H, d + 1, last)

\* The unrounded reference total, in minutes
RefTotal(start, end, H) == RefSum(Wall(start), Wall(end), H, start.d, end.d)

\* The multiple of 0.5 hour nearest to total minutes, a tie going up
\* (r tenths of an hour are 6 * r minutes)
RefRound(total) ==
    CHOOSE r \in {5 * k : k \in 0..(total \div 30 + 1)} :
        6 * r - 15 <= total /\ total < 6 * r + 15

RefHours(start, end, H) == RefRound(RefTotal(start, end, H))

Done == pc = "done"
InBusinessZone == tz = TaipeiOffset
SameDay == startStr.d = endStr.d
H0 == HolidayDays(argHolidays)

-----------------------------------------------------------------------------
(* Claims about calculateLeaveHours, checked under CalcSpec *)

\* C1: with the runtime zone equal to the business zone and holidays given
\* as plain calendar dates, the call returns the reference value: the sum
\* over the Monday-Friday, non-holiday days from the start day to the end
\* day of the span's minutes in [08:30, 17:30) less those in [12:00, 13:00),
\* rounded once, at the end, to the nearest 0.5 hour, a tie going up.
C1_Reference ==
    (Done /\ InBusinessZone) => result = RefHours(startStr, endStr, H0)

\* C1 witness: a span over several days with a holiday inside it whose
\* unrounded total is an exact quarter-hour tie.
C1_Witness ==
    /\ Done /\ InBusinessZone
    /\ startStr.d < endStr.d
    /\ \E d \in H0 : startStr.d <= d /\ d <= endStr.d /\ Weekday(d) \in 1..5
    /\ RefTotal(startStr, endStr, H0) % 30 = 15
    /\ result > 80

\* C2: a span with end <= start (end = start included) yields 0, whatever
\* the holidays and the runtime zone; the call is defined (no error).
C2_EmptySpanZero ==
    (Done /\ Wall(endStr) <= Wall(startStr)) => result = 0

\* C2 witness: a reversed span whose mirror image would bill hours.
C2_Witness ==
    /\ Done
    /\ Wall(endStr) < Wall(startStr)
    /\ RefHours(endStr, startStr, H0) > 0
    /\ result = 0

\* C3: a span inside one calendar day that is a Saturday, a Sunday or a
\* holiday yields exactly 0, whatever its times of day.
C3_NonWorkingDayZero ==
    (Done /\ SameDay /\ NonWorking(startStr.d, H0)) => result = 0

\* C4: the returned value is non-negative and a multiple of 0.5 hour.
C4_HalfHourMultiple ==
    Done => (result >= 0 /\ result % 5 = 0)

\* C4 witness: a call whose unrounded total is not a multiple of 30 minutes.
C4_Witness ==
    /\ Done
    /\ RefTotal(startStr, endStr, H0) % 30 \notin {0, 15}
    /\ result > 0

\* C5: 08:30 to 17:30 on a Monday-Friday date that is no holiday yields 8.0.
C5_FullDayIsEight ==
    (/\ Done /\ SameDay
     /\ ~NonWorking(startStr.d, H0)
     /\ startStr.m = 510 /\ endStr.m = 1050) => result = 80

\* C6: on a working weekday a span with start and end inside the lunch
\* window 12:00-13:00 (12:00 to 13:00 itself included) yields 0.0.
C6_LunchIsFree ==
    (/\ Done /\ SameDay
     /\ ~NonWorking(startStr.d, H0)
     /\ 720 <= startStr.m /\ startStr.m <= 780
     /\ 720 <= endStr.m /\ endStr.m <= 780) => result = 0

\* C6 witness: exactly 12:00 to 13:00 on a working weekday.
C6_Witness ==
    /\ Done /\ SameDay
    /\ ~NonWorking(startStr.d, H0)
    /\ startStr.m = 720 /\ endStr.m = 780
    /\ result = 0

\* The span with a start before 08:30 moved to 08:30 of its day
ClampStart(x) == IF x.m < 510 THEN LocalStr(x.d, 510) ELSE x
\* The span with an end after 17:30 moved to 17:30 of its day
ClampEnd(x) == IF x.m > 1050 THEN LocalStr(x.d, 1050) ELSE x

\* C7: time outside 08:30-17:30 is never billable: moving a start that is
\* before 08:30 to 08:30 of its day, or an end that is after 17:30 to 17:30
\* of its day, does not change the result, and 08:00 to 18:00 on a working
\* weekday yields 8.0.
C7_OutsideWindowFree ==
    Done =>
      /\ result = calculateLeaveHours(tz, ClampStart(startStr), endStr, argHolidays)
      /\ result = calculateLeaveHours(tz, startStr, ClampEnd(endStr), argHolidays)
      /\ (/\ SameDay /\ ~NonWorking(startStr.d, H0)
          /\ startStr.m = 480 /\ endStr.m = 1080) => result = 80

\* Working days strictly between the start day and the end day
WorkingBetween == {d \in (startStr.d + 1)..(endStr.d - 1) : ~NonWorking(d, H0)}

\* What the start day and the end day of a span over several days bill
EdgeMinutes ==
    (IF NonWorking(startStr.d, H0) THEN 0
     ELSE RefDay(Wall(startStr), Wall(endStr), startStr.d))
    + (IF NonWorking(endStr.d, H0) THEN 0
       ELSE RefDay(Wall(startStr), Wall(endStr), endStr.d))

\* C8: a span over several days bills only its working days: each
\* Saturday, Sunday and holiday strictly between the start day and the end
\* day adds 0 and each working day strictly between them adds 8 hours;
\* Friday 08:30 to the following Monday 17:30 with no holidays yields 16.0.
C8_MultiDay ==
    (Done /\ startStr.d < endStr.d) =>
      /\ result = RefRound(EdgeMinutes + 480 * Cardinality(WorkingBetween))
      /\ (/\ Weekday(startStr.d) = 5 /\ endStr.d = startStr.d + 3
          /\ startStr.m = 510 /\ endStr.m = 1050
          /\ H0 = {}) => result = 160

\* C9: the result is monotone in the holiday set: with one more holiday,
\* on whatever date, the same span never yields more.
C9_HolidayMonotone ==
    Done =>
      \A d \in Days :
        calculateLeaveHours(tz, startStr, endStr,
            Append(argHolidays, [id |-> 0, date |-> YmdStr(d), note |-> "note"]))
          <= result

\* C9 witness: a span whose hours strictly drop when a date is made a holiday.
C9_Witness ==
    /\ Done
    /\ \E d \in Days :
         calculateLeaveHours(tz, startStr, endStr,
             Append(argHolidays, [id |-> 0, date |-> YmdStr(d), note |-> "note"]))
           < result

\* The holiday list with each date recorded as the UTC-midnight timestamp
\* of its day ("2024-02-29T00:00:00.000Z" for 2024-02-29)
Stamped(holidays) ==
    [i \in 1..Len(holidays) |->
        [holidays[i] EXCEPT !.date = UtcStr(holidays[i].date.d * MinPerDay)]]

LocalIn(zone, t) ==
    LocalStr((t + zone) \div MinPerDay, (t + zone) % MinPerDay)

\* C17: day boundaries, the weekday of the week-end test and the window
\* instants are taken in Asia/Taipei: for the same start and end instants
\* and the same holiday list the call returns the same result in every
\* runtime zone.
C17_ZoneIndependent ==
    Done =>
      \A zone \in Zones :
        calculateLeaveHours(zone, LocalIn(zone, NewDate(tz, startStr)),
                            LocalIn(zone, NewDate(tz, endStr)), argHolidays)
          = result

\* The list back to front
Reversed(holidays) ==
    [i \in 1..Len(holidays) |-> holidays[Len(holidays) + 1 - i]]

\* The list with other ids and other notes on the same dates
Relabelled(holidays) ==
    [i \in 1..Len(holidays) |->
        [id |-> 100 + Len(holidays) - i, date |-> holidays[i].date,
         note |-> "another note"]]

\* Lists with the dates of holidays: in another order, with other ids and
\* notes, with entries twice
SameDates(holidays) ==
    {Reversed(holidays), Relabelled(holidays), holidays \o holidays,
     Reversed(Relabelled(holidays)) \o holidays}

\* C18: the result depends on the holiday list only through the set of its
\* dates: a list with the same dates in another order, with other notes and
\* ids or with entries repeated gives every span the same result.
C18_OnlyTheDates ==
    Done =>
      \A holidays \in SameDates(argHolidays) :
        calculateLeaveHours(tz, startStr, endStr, holidays) = result

\* C18 witness: a list of two holidays each of which lowers the result.
C18_Witness ==
    /\ Done
    /\ Len(argHolidays) = 2
    /\ calculateLeaveHours(tz, startStr, endStr, <<argHolidays[1]>>) > result
    /\ calculateLeaveHours(tz, startStr, endStr, <<argHolidays[2]>>) > result

\* totalHours when the loop of the call on the state's arguments exits,
\* in minutes (0 when the call returns before the loop)
UnroundedTotal ==
    LET s == NewDate(tz, startStr)
        e == NewDate(tz, endStr)
    IN  IF e <= s THEN 0 ELSE DayLoop(tz, s, e, argHolidays, s, 0)

\* The working days the span touches
WorkingDaysTouched == {d \in startStr.d .. endStr.d : ~NonWorking(d, H0)}

\* The lunch deduction of day d: what DayDuration takes off the length of
\* the day's effective sub-span
LunchDeduction(d) ==
    DayDurationNoLunch(tz, NewDate(tz, startStr), NewDate(tz, endStr), YmdStr(d))
    - DayDuration(tz, NewDate(tz, startStr), NewDate(tz, endStr), YmdStr(d))

\* The effective sub-span of day d: [S, E) cut to the day's 08:30-17:30
SubSpanStart(d) == Max(NewDate(tz, startStr), NewDate(tz, LocalStr(d, 510)))
SubSpanEnd(d) == Min(NewDate(tz, endStr), NewDate(tz, LocalStr(d, 1050)))

\* C21: on each day the lunch deduction is the overlap of the day's
\* effective sub-span with [12:00, 13:00) and is no more than the sub-span
\* is long, so what a day adds lies between 0 and 8 hours, and the
\* unrounded total is at most 8 hours times the number of working days the
\* span touches.
C21_LunchClamped ==
    Done =>
      /\ \A d \in Days :
            /\ LunchDeduction(d) =
                  Overlap(SubSpanStart(d), SubSpanEnd(d),
                          NewDate(tz, LocalStr(d, 720)), NewDate(tz, LocalStr(d, 780)))
            /\ LunchDeduction(d) <= Max(0, SubSpanEnd(d) - SubSpanStart(d))
            /\ DayDuration(tz, NewDate(tz, startStr), NewDate(tz, endStr), YmdStr(d)) >= 0
            /\ DayDuration(tz, NewDate(tz, startStr), NewDate(tz, endStr), YmdStr(d)) <= 480
      /\ UnroundedTotal <= 480 * Cardinality(WorkingDaysTouched)

\* The days the loop of the call on the state's arguments visits
Visits ==
    LET s == NewDate(tz, startStr)
        e == NewDate(tz, endStr)
    IN  IF e <= s THEN <<>> ELSE DaysVisited(tz, e, s)

\* C22: the day loop terminates for every pair of timestamps and every
\* holiday list, visits only calendar days from the start day to the end
\* day, each at most once, and makes at most as many iterations as the
\* span has calendar days, plus one.
C22_EachDayOnce ==
    Done =>
      /\ Len(Visits) <= Max(0, endStr.d - startStr.d + 1) + 1
      /\ \A i \in 1..Len(Visits) :
            /\ startStr.d <= Visits[i].d /\ Visits[i].d <= endStr.d
            /\ \A j \in 1..Len(Visits) : Visits[i] = Visits[j] => i = j

\* C27: with the runtime in the business zone and holidays given as plain
\* dates, the call returns what the earlier revision of geminiService.ts
\* returns on the same arguments.
C27_RevisionsAgree ==
    (Done /\ InBusinessZone) =>
        result = GeminiCalculateLeaveHours(tz, startStr, endStr, argHolidays)

\* Thursday 10:10 to Monday 17:30 across a holiday Friday and a weekend:
\* both revisions give 14.5 hours
C27_Witness ==
    /\ Done
    /\ InBusinessZone
    /\ startStr = LocalStr(19782, 610)
    /\ endStr = LocalStr(19786, 1050)
    /\ argHolidays = HolidayList({19783})
    /\ result = 145
    /\ GeminiCalculateLeaveHours(tz, startStr, endStr, argHolidays) = 145

-----------------------------------------------------------------------------
(* Claims about repeated calls of the engine, checked under PureSpec *)

-----------------------------------------------------------------------------
(* Claims about the request store, checked under Spec *)

\* Every pending or approved leave of data has the hours the engine gives
\* for its own span against data's holidays
Recalculated(data) ==
    \A i \in 1..Len(data.leaves) :
        data.leaves[i].status \in {"pending", "approved"} =>
            data.leaves[i].hours =
                calculateLeaveHours(tz, data.leaves[i].start, data.leaves[i].end,
                                    data.holidays)

HolidayStep ==
    \/ \E date \in HolidayDates : AddHoliday(date)
    \/ \E id \in Ids(localStorage.holidays) : RemoveHoliday(id)

\* C10: when addHoliday or removeHoliday returns, every stored leave that
\* is pending or approved has hours equal to calculateLeaveHours of its own
\* stored start and end against the updated holiday list, and that is what
\* localStorage holds; approved leaves are recomputed like pending ones.
C10_SweepRecalculates ==
    [][HolidayStep => Recalculated(localStorage')]_vars

\* C10 witness: an approved leave of a working day, drafted in a view that
\* knew of no holiday (so submitted with its full hours), that now stands at
\* 0 hours because its day has been made a holiday since.
C10_Witness ==
    /\ viewHolidays = <<>>
    /\ localStorage.holidays # <<>>
    /\ \E i \in 1..Len(localStorage.leaves) :
          LET l == localStorage.leaves[i]
          IN  /\ l.status = "approved"
              /\ calculateLeaveHours(tz, l.start, l.end, <<>>) > 0
              /\ l.hours = 0

\* C13: in every reachable state of the request store, whatever the
\* sequence of form submissions, holiday additions and removals, approvals,
\* rejections and cancellations, each pending or approved leave has stored
\* hours equal to calculateLeaveHours of its span against the current
\* holiday list, a leave drafted in a view opened before a later holiday
\* change included.
C13_HoursAlwaysCurrent == Recalculated(localStorage)

\* C20: the recalculation is idempotent: when addHoliday or removeHoliday
\* has run the sweep, running it once more against the holiday list and
\* the spans and statuses it left gives every leave the hours the first run
\* gave it.
C20_SweepIdempotent ==
    [][HolidayStep =>
          LET first == localStorage'
          IN  RecalculateLeaves(first.leaves, first.holidays) = first.leaves]_vars

\* C20 witness: a leave submitted with 0 hours from a view that showed its
\* day as a holiday stands at its full hours, the holiday having been
\* removed and the sweep run.
C20_Witness ==
    /\ viewHolidays # <<>>
    /\ localStorage.holidays = <<>>
    /\ \E i \in 1..Len(localStorage.leaves) :
          LET l == localStorage.leaves[i]
          IN  /\ l.status \in {"pending", "approved"}
              /\ calculateLeaveHours(tz, l.start, l.end, viewHolidays) = 0
              /\ l.hours > 0

-----------------------------------------------------------------------------
(* Claims about the sweep and the other collections, checked under OfficeSpec *)

\* Every overtime request of data that is not cancelled or rejected has the
\* hours the engine gives for its own span against data's holidays
OvertimeRecalculated(data) ==
    \A i \in 1..Len(data.overtimes) :
        data.overtimes[i].status \notin {"cancelled", "rejected"} =>
            data.overtimes[i].hours =
                calculateLeaveHours(tz, data.overtimes[i].start,
                                    data.overtimes[i].end, data.holidays)

\* The hours of every overtime request of data are the plain length of its
\* span in hours, to one decimal
OvertimePlainLength(data) ==
    \A i \in 1..Len(data.overtimes) :
        LET o == data.overtimes[i]
        IN  o.hours = toFixed1(NewDate(tz, o.end) - NewDate(tz, o.start))

C14_SweepFrame ==
    [][HolidayStep =>
          LET old == localStorage
              new == localStorage'
          IN  /\ Len(new.leaves) = Len(old.leaves)
              /\ \A i \in 1..Len(old.leaves) :
                    /\ [new.leaves[i] EXCEPT !.hours = old.leaves[i].hours]
                           = old.leaves[i]
                    /\ old.leaves[i].status \in {"cancelled", "rejected"} =>
                           new.leaves[i].hours = old.leaves[i].hours
              /\ new.users = old.users
              /\ new.records = old.records
              /\ new.overtimes = old.overtimes
              /\ new.announcements = old.announcements]_vars

\* C14 witness: beside a stored overtime request, a cancelled or rejected
\* leave keeps hours that the engine no longer gives for its span, its day
\* having been made a holiday.
C14_Witness ==
    /\ localStorage.holidays # <<>>
    /\ localStorage.overtimes # <<>>
    /\ localStorage.users # <<>>
    /\ \E i \in 1..Len(localStorage.leaves) :
          LET l == localStorage.leaves[i]
          IN  /\ l.status \in {"cancelled", "rejected"}
              /\ l.hours > 0
              /\ calculateLeaveHours(tz, l.start, l.end, localStorage.holidays) = 0

-----------------------------------------------------------------------------
(* Claims about the sweep over a store filled from the cloud, under CloudSpec *)

\* Every leave of old that is neither cancelled nor rejected and whose
\* recomputation does not fail has in new the hours the engine gives for
\* its span against new's holidays
SweptAroundFailures(old, new) ==
    /\ Len(new.leaves) = Len(old.leaves)
    /\ \A i \in 1..Len(old.leaves) :
          LET l == old.leaves[i]
          IN  (/\ l.status \notin {"cancelled", "rejected"}
               /\ ~calculateLeaveHoursThrows(l.start, l.end)) =>
                  new.leaves[i].hours =
                      calculateLeaveHours(tz, l.start, l.end, new.holidays)

\* C19: a failure while recomputing one request's hours does not abort the
\* sweep of addHoliday/removeHoliday: every other request that is not
\* cancelled or rejected still has its hours updated and persisted, and
\* the holiday mutation itself is persisted.
C19_SweepSurvivesFailure ==
    [][/\ \A date \in HolidayDates :
             AddHoliday(date) =>
                /\ Len(localStorage'.holidays) = Len(localStorage.holidays) + 1
                /\ SweptAroundFailures(localStorage, localStorage')
       /\ \A id \in Ids(localStorage.holidays) :
             RemoveHoliday(id) =>
                /\ id \notin Ids(localStorage'.holidays)
                /\ SweptAroundFailures(localStorage, localStorage')]_vars

-----------------------------------------------------------------------------
(* Claims about the Firestore-backed service, checked under FireSpec *)

\* Every leave document of db that is not cancelled or rejected has the
\* hours the engine gives for its own span against db's holiday documents
fsRecalculated(db) ==
    \A i \in 1..Len(db.leaves) :
        db.leaves[i].status \notin {"cancelled", "rejected"} =>
            db.leaves[i].hours =
                calculateLeaveHours(tz, db.leaves[i].start, db.leaves[i].end,
                                    db.holidays)

fsHolidayStep ==
    \/ \E date \in HolidayDates : fsAddHoliday(date)
    \/ \E id \in Ids(firestore.holidays) : fsRemoveHoliday(id)

\* C12: in the Firestore-backed service, when addHoliday or removeHoliday
\* completes, every leave request that is not cancelled or rejected has its
\* hours recalculated against the updated holiday set: none is left with
\* hours computed against the old set.
C12_FirestoreSweep ==
    [][fsHolidayStep => fsRecalculated(firestore')]_vars

-----------------------------------------------------------------------------
(* Claims about the cloud synchronisation, checked under SyncSpec *)

\* The step is a call of fetchCloudData
CallStep == Len(returned') = Len(returned) + 1

\* C23: fetchCloudData is a singleton request.  A call made while the
\* fetch in the slot is in flight returns the promise in the slot and
\* issues no request; the slot is cleared only when its promise has settled
\* and is never handed to another promise before; a call that finds the
\* slot empty starts a new fetch and returns its promise.
C23_Singleton ==
    [][/\ (CallStep /\ InFlight) =>
            /\ returned'[Len(returned')] = activeCloudFetch
            /\ fetches' = fetches
            /\ activeCloudFetch' = activeCloudFetch
       /\ (activeCloudFetch # 0 /\ activeCloudFetch' # activeCloudFetch) =>
            /\ activeCloudFetch' = 0
            /\ fetches[activeCloudFetch].state = "settled"
       /\ (CallStep /\ activeCloudFetch = 0) =>
            /\ Len(fetches') = Len(fetches) + 1
            /\ fetches'[Len(fetches')].state = "sent"
            /\ activeCloudFetch' = Len(fetches')
            /\ returned'[Len(returned')] = Len(fetches')]_vars

\* Two calls were given the same promise, the slot was cleared after it had
\* settled, and a third call started a second fetch, now in flight.
C23_Witness ==
    /\ returned = <<1, 1, 2>>
    /\ fetches[1].state = "settled"
    /\ InFlight

\* C30: a leave saveData wrote to localStorage while the fetch in the slot
\* was in flight is still in localStorage once that fetch has completed.
C30_SaveSurvivesFetch ==
    [][\A p \in 1..Len(fetches) :
          (p = activeCloudFetch /\ fetches[p].state # "settled"
             /\ fetches'[p].state = "settled")
          => savedInFlight \subseteq Ids(localStorage'.leaves)]_vars

-----------------------------------------------------------------------------
(* Claims about the clock correction, checked under TimeSpec *)

AllFailed ==
    \A i \in 1..NumSources : sources[i].state \in {"rejected", "timed out"}

\* C24: getNetworkTimeOffset resolves to the offset of the source that
\* answered first, whatever the order in which the three settle; it
\* resolves to null exactly when all three have failed or timed out; it
\* resolves as soon as one of the two has happened, and an offset of 0 is
\* never put in the place of a failed correction.
C24_FirstAnswerOrNull ==
    /\ answered # <<>> =>
          offset = <<[k |-> "number", v |-> sources[answered[1]].value]>>
    /\ AllFailed <=> offset = <<[k |-> "null", v |-> 0]>>
    /\ (answered = <<>> /\ ~AllFailed) => offset = <<>>

\* The second source answered after the first had failed and before the
\* third answered with another value
C24_Witness ==
    /\ sources[1].state = "rejected"
    /\ answered = <<2, 3>>
    /\ sources[2].value = 0
    /\ sources[3].value = 1
    /\ offset = <<[k |-> "number", v |-> 0]>>

\* All three sources failed, one of them by its timeout
C24_WitnessNull ==
    /\ AllFailed
    /\ sources[2].state = "timed out"
    /\ offset = <<[k |-> "null", v |-> 0]>>

-----------------------------------------------------------------------------
(* Claims about the Firestore-backed addRecord, checked under RecordSpec *)

\* Call c's write fails in this step
Fails(c) == addCalls[c].state = "pending" /\ addCalls'[c].state = "rejected"

\* The step is call c of addRecord
Starts(c) == Len(addCalls) = c - 1 /\ Len(addCalls') = c

\* C25 as stated: when the remote write fails, the cache's record list
\* equals what it was before the call.
C25_RollbackToPreCall ==
    [][\A c \in 1..Len(addCalls) :
          Fails(c) => recordsCache' = addCalls[c].before]_vars

\* C25, amended: the record heads the cache right after the call starts and
\* is in the cache as long as its write is pending or has succeeded; when
\* the write fails the promise rejects and the cache becomes what it was
\* just before the failure without that record, which is the pre-call list
\* whenever nothing but this call changed the cache in between.
C25_OptimisticWithRollback ==
    [][\A c \in 1..Len(addCalls') :
          /\ Starts(c) => /\ Head(recordsCache') = addCalls'[c].record
                          /\ Tail(recordsCache') = recordsCache
                          /\ addCalls'[c].before = recordsCache
          /\ addCalls'[c].state \in {"pending", "resolved"} =>
                addCalls'[c].record.id \in Ids(recordsCache')
          /\ (c <= Len(addCalls) /\ Fails(c)) =>
                /\ addCalls[c].record.id \notin Ids(recordsCache')
                /\ recordsCache' = WithoutId(recordsCache, addCalls[c].record.id)
                /\ recordsCache = <<addCalls[c].record>> \o addCalls[c].before
                      => recordsCache' = addCalls[c].before]_vars

\* One write failed and was rolled back to the pre-call list, which held a
\* record; another write succeeded and its record is in the cache.
C25_Witness ==
    /\ Len(addCalls) = 2
    /\ addCalls[1].state = "resolved"
    /\ addCalls[2].state = "rejected"
    /\ addCalls[2].before = <<addCalls[1].record>>
    /\ recordsCache = addCalls[2].before

-----------------------------------------------------------------------------
(* Claims about arguments that are not timestamps, checked under DraftSpec *)

IsString(x) == x # NumberVal

-----------------------------------------------------------------------------
(* Claims about quotas, checked under QuotaSpec *)

\* C28: for every leave type with a quota, the hours of the user's pending
\* and approved leaves of the type are at most the user's quota for it.
C28_WithinQuota ==
    \A type \in QuotaTypes :
        calculateUsed(localStorage.leaves, type) <= Quota(type)

-----------------------------------------------------------------------------
(* Claims about the statuses of requests, checked under ReviewSpec *)

\* Every request of seq that is cancelled or rejected has the same status
\* in seq2
Terminal(seq, seq2) ==
    \A i \in 1..Len(seq) :
        seq[i].status \in {"cancelled", "rejected"} =>
            \E j \in 1..Len(seq2) :
                seq2[j].id = seq[i].id /\ seq2[j].status = seq[i].status

\* C29: once a leave or overtime request is cancelled or rejected, no step
\* changes its status.
C29_TerminalStatuses ==
    [][/\ Terminal(localStorage.leaves, localStorage'.leaves)
       /\ Terminal(localStorage.overtimes, localStorage'.overtimes)]_vars

====
